---------------------------- MODULE Spec2Model ----------------------------
(***************************************************************************)
(* Model of the scheduling and document-editing core of gecco              *)
(* (src/gecco.py, src/gecco/modules/lexicon.py).                           *)
(*                                                                         *)
(* Every method is followed statement by statement from its entry, with a  *)
(* well-formed receiver and well-formed arguments.  Python decides what a  *)
(* statement does: a name that is bound neither in the function nor at     *)
(* module level raises NameError, a local read before its assignment       *)
(* raises UnboundLocalError, an attribute no code sets raises              *)
(* AttributeError, and an exception nobody catches ends the call (and the  *)
(* thread running it) at that line.                                        *)
(*                                                                         *)
(* The specifications share the variables:                                 *)
(*   Spec         Corrector.append and Corrector.run                       *)
(*   SpecFind     Module.__init__ / verifysettings and Module.findserver   *)
(*   SpecEdit     the four edit primitives of Module, called by concurrent *)
(*                threads that share one lock and one document             *)
(*   SpecBalance  LoadBalanceMaster                                        *)
(*   SpecWorker   ProcessorThread.run and stop, with a producer filling    *)
(*                the queue the way Corrector.run does                     *)
(*   SpecLine     LineByLineClient.communicate and                         *)
(*                LineByLineServerHandler.handle                           *)
(*   SpecCacheSeq LexiconModule.cache, one call after the other            *)
(*   SpecCache    LexiconModule.cache, called by concurrent server threads *)
(***************************************************************************)
EXTENDS Naturals, Sequences, FiniteSets

\* ------------------------------------------------------------------ bounds
MaxModules == 2      \* modules in the registry
MaxServers == 2      \* endpoints in a module's 'servers' setting
MaxWords   == 2      \* words (tokens) in the document
MaxThreads == 2      \* settings['threads']
MaxCallers == 2      \* threads calling edit primitives (SpecEdit)

VARIABLES
    settings,    \* Corrector.settings (the part run reads: threads)
    modules,     \* Corrector.modules, an OrderedDict: registry order = sequence order
    pc,          \* position of Corrector.run
    document,    \* the FoLiA document handed to run / edited by the primitives
    inited,      \* run: indices of the modules whose init has returned, in call order
    lock,        \* run local `lock` / the lock handed to the edit primitives
    threads,     \* run local `threads`
    queue,       \* run local `queue`
    exc,         \* the exception that ended run, if any
    ran,         \* (module, unit) work items a worker has called run/runclient on
    found,       \* the last Module.findserver call: the module and the outcome
    epc,         \* per caller: position inside an edit primitive
    ecall,       \* per caller: the edit primitive it is in and its arguments
    eexc,        \* per caller: the exception that ended its edit call
    master,      \* the LoadBalanceMaster object
    clock,       \* the time, in units of the poll interval's resolution
    loads,       \* per endpoint: the load its server reports when polled
    polls,       \* the load polls issued so far: endpoint, reading and time
    got,         \* the last LoadBalanceMaster.get call and its return value
    wpc,         \* per worker: position inside ProcessorThread.run
    wexc,        \* per worker: the exception that ended its run
    stopcall,    \* per worker: the outcome of thread.stop() called on it
    client,      \* a LineByLineClient and the communicate call made on it
    conn,        \* a server connection and the handle call serving it
    cachesize,   \* LexiconModule.settings['cachesize']
    cached,      \* LexiconModule._cache, an OrderedDict: entries in dict order
    kpc,         \* per server thread: position inside LexiconModule.cache
    kcall,       \* per server thread: the arguments of its cache call
    kexc,        \* per server thread: the exception that ended its cache call
    stored,      \* per word: the results last written to the cache for it
    inserts,     \* the number of entries inserted into the cache so far
    evicted      \* the insertion number of the entry evicted last (0: none)

vars == <<settings, modules, pc, document, inited, lock, threads, queue, exc,
          ran, found, epc, ecall, eexc, master, clock, loads, polls, got,
          wpc, wexc, stopcall, client, conn, cachesize, cached, kpc, kcall,
          kexc, stored, inserts, evicted>>

runvars  == <<pc, document, inited, lock, threads, queue, exc, ran>>
editvars == <<epc, ecall, eexc>>
balancevars == <<master, clock, loads, polls, got>>
workervars  == <<wpc, wexc, stopcall>>
linevars    == <<client, conn>>
cachevars   == <<cachesize, cached, kpc, kcall, kexc, stored, inserts, evicted>>
othervars   == <<balancevars, workervars, linevars, cachevars>>

\* --------------------------------------------------------- python name scope
\* Names bound at module level in gecco.py once it is loaded: the names its
\* import lines 12-22 ask for, UCTOSEARCHDIRS and its classes.  Nothing else is a
\* global of the module; in particular it imports neither datetime nor
\* collections.
ModuleGlobals ==
    {"OrderedDict", "Thread", "Queue", "Lock", "sys", "os", "socket",
     "socketserver", "yaml", "folia", "Tokenizer", "argparse", "UCTOSEARCHDIRS",
     "ProcessorThread", "Corrector", "LoadBalanceMaster", "LoadBalanceServer",
     "LineByLineClient", "LineByLineServerHandler", "ThreadedTCPServer", "Module"}

\* Attributes Module.__init__ and Module.verifysettings set on a module (plus
\* `parent`, set by Corrector.append).
ModuleAttributes ==
    {"id", "settings", "local", "sources", "models", "log", "parent"}

NoExc == [line |-> 0, type |-> "none"]
Raised(type, line) == [line |-> line, type |-> type]

\* ------------------------------------------------------------------ modules
Classes == {"Module", "LexiconModule", "TIMBLPuncRecaseModule"}

\* The UNIT class attribute: Module.UNIT = folia.Document (gecco.py:322),
\* LexiconModule.UNIT = folia.Word (lexicon.py:21), TIMBLPuncRecaseModule.UNIT =
\* folia.Word (puncrecase.py:27).
UNIT(cls) == IF cls = "Module" THEN "Document" ELSE "Word"

Endpoint(k) == <<"host", k>>
ServerList(n) == [k \in 1..n |-> Endpoint(k)]

\* A settings dict, as far as the core reads it: whether it has the key
\* 'servers', and the list stored under it.
SettingsSet ==
    {[hasServers |-> FALSE, servers |-> <<>>]} \cup
    {[hasServers |-> TRUE, servers |-> ServerList(n)] : n \in 0..MaxServers}

\* Module.verifysettings, line 333:  self.local = 'servers' in self.settings
VerifyLocal(s) == s.hasServers

\* Module.__init__: store the settings, then verifysettings.
ModuleNew(cls, s) ==
    [settings |-> s, cls |-> cls, local |-> VerifyLocal(s), unit |-> UNIT(cls)]

\* Module.run / Module.runclient of the base class raise NotImplementedError;
\* the subclasses override both.
RunNotImplemented(m) == m.cls = "Module"

\* ----------------------------------------------------------------- document
\* foliadoc.select(unit): the units of one kind, in document order.  The
\* document itself is the single unit of kind Document.
Select(doc, kind) ==
    IF kind = "Document" THEN {<<"Document", 0>>}
    ELSE {<<"Word", w>> : w \in 1..doc.words}

DocumentNew(n, declared) == [words |-> n, declared |-> declared, corrections |-> {}]

UnboundLock    == [bound |-> FALSE, holder |-> 0]
UnboundThreads == [bound |-> FALSE, list |-> <<>>]
UnboundQueue   == [bound |-> FALSE, items |-> <<>>, unfinished |-> 0]
NoFind         == [exc |-> NoExc, endpoint |-> <<>>, module |-> 0,
                   outcome |-> "none", polled |-> FALSE]

Callers == 1..MaxCallers
NoCall  == [id |-> 0, newwords |-> 0, prim |-> "none", sentence |-> FALSE,
            word |-> 0]

\* ------------------------------------------------------------ Corrector.append
\* self.modules[id] = module: a new id goes to the end of the OrderedDict, an
\* id already present keeps its place and gets the new module.
append(id, module) ==
    /\ pc \in {"idle", "raised"}
    /\ id \in 1..(Len(modules) + 1)
    /\ id <= MaxModules
    /\ modules' = IF id <= Len(modules)
                  THEN [modules EXCEPT ![id] = module]
                  ELSE Append(modules, module)
    \* a run that has ended leaves nothing behind but the document
    /\ pc' = "idle"
    /\ inited' = <<>>
    /\ lock' = UnboundLock
    /\ threads' = UnboundThreads
    /\ queue' = UnboundQueue
    /\ exc' = NoExc
    /\ UNCHANGED <<settings, document, ran, found, editvars, othervars>>

CorrectorAppend ==
    \E id \in 1..MaxModules, cls \in Classes, s \in SettingsSet :
        append(id, ModuleNew(cls, s))

\* --------------------------------------------------------------- Corrector.run
\* Entered with a folia.Document (lines 142-165, the tokenizer and file
\* loading, belong to the callers of the core).  The locals of the call start
\* unbound.
RunStart ==
    /\ pc \in {"idle", "raised"}
    /\ \E n \in 0..MaxWords, d \in BOOLEAN : document' = DocumentNew(n, d)
    /\ pc' = "init"
    /\ inited' = <<>>
    /\ lock' = UnboundLock
    /\ threads' = UnboundThreads
    /\ queue' = UnboundQueue
    /\ exc' = NoExc
    /\ ran' = <<>>
    /\ UNCHANGED <<settings, modules, found, editvars, othervars>>

\* Module.init, lines 381-386: declare the correction set unless the document
\* has it declared already.
ModuleInit(doc) == [doc EXCEPT !.declared = TRUE]

\* The init loop with a handler around module.init that notes the failure and
\* goes on to the next module.
RunInitModuleSwallow ==
    /\ pc = "init"
    /\ Len(inited) < Len(modules)
    /\ \E raises \in BOOLEAN :
          /\ exc' = IF raises THEN Raised("InitError", 170) ELSE exc
          /\ document' = IF raises THEN document ELSE ModuleInit(document)
          /\ inited' = Append(inited, Len(inited) + 1)
          /\ UNCHANGED pc
    /\ UNCHANGED <<settings, modules, lock, threads, queue, ran, found, editvars, othervars>>

\* Lines 169-170:  for module in self: module.init(foliadoc)
\* One iteration.  init (Module.init or a subclass's, and the document's
\* declare under it) returns or raises; run has no handler around the call, so
\* an exception leaves run at line 170.
RunInitModule ==
    /\ pc = "init"
    /\ Len(inited) < Len(modules)
    /\ \E raises \in BOOLEAN :
          IF raises
          THEN /\ pc' = "raised"
               /\ exc' = Raised("InitError", 170)
               /\ UNCHANGED <<document, inited>>
          ELSE /\ document' = ModuleInit(document)
               /\ inited' = Append(inited, Len(inited) + 1)
               /\ UNCHANGED <<pc, exc>>
    /\ UNCHANGED <<settings, modules, lock, threads, queue, ran, found, editvars, othervars>>

\* Lines 172-176, after the init loop:  lock = Lock(); threads = []
RunCreateLock ==
    /\ pc = "init"
    /\ Len(inited) = Len(modules)
    /\ lock' = [bound |-> TRUE, holder |-> 0]
    /\ threads' = [bound |-> TRUE, list |-> <<>>]
    /\ pc' = "threads"
    /\ UNCHANGED <<settings, modules, document, inited, queue, exc, ran, found,
                   editvars, othervars>>

\* ProcessorThread.__init__, lines 30-37: stores its arguments, sets the
\* instance attribute stop = False and an empty client table.  It does not call
\* Thread.__init__, so the object is not an initialised Thread.
ProcessorThreadNew(q, l) ==
    [lock |-> l, q |-> q, clients |-> {}, initialized |-> FALSE, stop |-> FALSE]

\* Lines 177-181, one iteration of  for i in range(self.settings['threads']).
\* Line 178 reads the local `queue`, which run assigns only at line 184.
\* setDaemon (179) and start (180) need an initialised Thread.
RunConstructThread ==
    /\ pc = "threads"
    /\ Len(threads.list) < settings.threads
    /\ IF ~queue.bound
       THEN /\ pc' = "raised"
            /\ exc' = Raised("UnboundLocalError", 178)
            /\ UNCHANGED threads
       ELSE IF ~ProcessorThreadNew(queue, lock).initialized
       THEN /\ pc' = "raised"
            /\ exc' = Raised("RuntimeError", 179)
            /\ UNCHANGED threads
       ELSE /\ threads' = [threads EXCEPT
                              !.list = Append(@, ProcessorThreadNew(queue, lock))]
            /\ UNCHANGED <<pc, exc>>
    /\ UNCHANGED <<settings, modules, document, inited, lock, queue, ran, found,
                   editvars, othervars>>

\* Line 184, after the thread loop:  queue = Queue()
RunCreateQueue ==
    /\ pc = "threads"
    /\ Len(threads.list) = settings.threads
    /\ queue' = [bound |-> TRUE, items |-> <<>>, unfinished |-> 0]
    /\ pc' = "dispatch"
    /\ UNCHANGED <<settings, modules, document, inited, lock, threads, exc, ran,
                   found, editvars, othervars>>

\* Line 186:  if folia.Document in units
\* `units` is no local of run (run never assigns it) and no global of the
\* module (Corrector.__init__ stores the set as self.units).
RunQueueDocument ==
    /\ pc = "dispatch"
    /\ "units" \notin ModuleGlobals
    /\ pc' = "raised"
    /\ exc' = Raised("NameError", 186)
    /\ UNCHANGED <<settings, modules, document, inited, lock, threads, queue,
                   ran, found, editvars, othervars>>

\* ------------------------------------------------------------ LoadBalanceMaster
MaxLoad == 2         \* the loads a server reports: 0..MaxLoad
MaxTime == 2         \* the clock runs from 0 to MaxTime

\* The value of a call that ends without a return statement.
None == <<>>

UnboundMaster == [bound |-> FALSE, availableservers |-> {}, minpollinterval |-> 0]
NoGet == [servers |-> <<>>, called |-> FALSE, loadsthen |-> <<>>, result |-> None,
          time |-> 0]

\* LoadBalanceMaster.__init__, lines 254-256: stores its two arguments.  The
\* object has no other attribute: no cache of loads, no time of a last poll.
LoadBalanceMasterNew(availableservers, minpollinterval) ==
    [bound |-> TRUE, availableservers |-> availableservers,
     minpollinterval |-> minpollinterval]

\* LoadBalanceMaster.get, lines 259-261: a docstring and a TODO comment.  The
\* call reads nothing, polls nothing and ends without a return statement.
LoadBalanceMasterGet(lbm, servers) == None

\* LoadBalanceMaster(availableservers, minpollinterval)
MasterConstruct ==
    /\ \E n \in 0..MaxServers, interval \in 1..MaxTime :
          master' = LoadBalanceMasterNew({Endpoint(k) : k \in 1..n}, interval)
    /\ UNCHANGED <<settings, modules, runvars, found, editvars, clock, loads,
                   polls, got, workervars, linevars, cachevars>>

\* loadbalancemaster.get(servers) with a list of candidate endpoints.  The
\* call issues no poll: `polls` stays as it is.
MasterGet ==
    /\ master.bound
    /\ \E n \in 0..MaxServers :
          got' = [servers |-> ServerList(n), called |-> TRUE, loadsthen |-> loads,
                  result |-> LoadBalanceMasterGet(master, ServerList(n)),
                  time |-> clock]
    /\ UNCHANGED <<settings, modules, runvars, found, editvars, master, clock,
                   loads, polls, workervars, linevars, cachevars>>

\* Time passes between two calls, and the servers' loads change with it.
Tick ==
    /\ clock < MaxTime
    /\ clock' = clock + 1
    /\ loads' \in [1..MaxServers -> 0..MaxLoad]
    /\ UNCHANGED <<settings, modules, runvars, found, editvars, master, polls,
                   got, workervars, linevars, cachevars>>

\* ------------------------------------------------------------ Module.findserver
FindRaised(m, type, line) ==
    [exc |-> Raised(type, line), endpoint |-> <<>>, module |-> m,
     outcome |-> "raised", polled |-> FALSE]

FindReturned(m, endpoint, polled) ==
    [exc |-> NoExc, endpoint |-> endpoint, module |-> m,
     outcome |-> "returned", polled |-> polled]

\* Lines 363-372.  Line 367 indexes self.settings['servers']: KeyError when the
\* key is absent.  Line 372 reads `loadbalancemaster`; the parameter is named
\* loadbalanceserver.  LoadBalanceMaster.get (lines 259-261) has no body but
\* its docstring and returns None.
findserver(m) ==
    IF m.local
    THEN FindRaised(m, "Exception", 366)
    ELSE IF ~m.settings.hasServers
    THEN FindRaised(m, "KeyError", 367)
    ELSE IF Len(m.settings.servers) = 1
    THEN FindReturned(m, m.settings.servers[1], FALSE)
    ELSE IF "loadbalancemaster" \notin ModuleGlobals
    THEN FindRaised(m, "NameError", 372)
    ELSE FindReturned(m, LoadBalanceMasterGet(UnboundMaster, m.settings.servers),
                      TRUE)

\* module.findserver(loadbalancemaster), called on a registered module.
ModuleFindserver ==
    /\ pc = "idle"
    /\ \E i \in 1..Len(modules) : found' = findserver(modules[i])
    /\ UNCHANGED <<settings, modules, runvars, editvars, othervars>>

\* ---------------------------------------------------------- edit primitives
\* Module.addwordsuggestions, adderrordetection, splitcorrection and
\* mergecorrection, lines 436-500, each called by a thread of its own with the
\* shared lock.  An exception leaves the primitive at once: no statement after
\* the raising one runs.
Primitives ==
    {"addwordsuggestions", "adderrordetection", "splitcorrection", "mergecorrection"}

EditRaise(c, type, line) ==
    /\ epc' = [epc EXCEPT ![c] = "raised"]
    /\ eexc' = [eexc EXCEPT ![c] = Raised(type, line)]
    /\ UNCHANGED <<lock, document, ecall>>

\* word.generate_id(folia.Correction): the next unused correction id of the word.
GenerateId(doc, word) ==
    1 + Cardinality({a \in doc.corrections : a.word = word})

\* Entry of a primitive with its arguments; addwordsuggestions and
\* adderrordetection log first (lines 437, 459).
EditCall(c) ==
    /\ epc[c] = "idle"
    /\ \E prim \in Primitives, word \in 1..document.words, n \in 0..1 :
          /\ (prim # "splitcorrection" => n = 0)
          /\ ecall' = [ecall EXCEPT ![c] =
                          [id |-> 0, newwords |-> n, prim |-> prim,
                           sentence |-> FALSE, word |-> word]]
    /\ epc' = [epc EXCEPT ![c] = "acquire"]
    /\ UNCHANGED <<lock, document, eexc>>

\* An acquire that does not wait for the holder.
LockAcquireNoWait(c) ==
    /\ epc[c] = "acquire"
    /\ lock' = [lock EXCEPT !.holder = c]
    /\ epc' = [epc EXCEPT ![c] = "locked"]
    /\ UNCHANGED <<document, ecall, eexc>>

\* lock.acquire(), lines 439, 461, 476, 488: blocks while the lock is held.
LockAcquire(c) ==
    /\ epc[c] = "acquire"
    /\ lock.holder = 0
    /\ lock' = [lock EXCEPT !.holder = c]
    /\ epc' = [epc EXCEPT ![c] = "locked"]
    /\ UNCHANGED <<document, ecall, eexc>>

\* The end of a primitive: its edit of the document, then lock.release().
EditDone(c, doc) ==
    /\ document' = doc
    /\ lock' = [lock EXCEPT !.holder = 0]
    /\ epc' = [epc EXCEPT ![c] = "returned"]
    /\ UNCHANGED <<ecall, eexc>>

\* Line 441:  correction_id = word.generate_id(folia.Correction)
AddWordSuggestionsGenerateId(c) ==
    /\ epc[c] = "locked"
    /\ ecall[c].prim = "addwordsuggestions"
    /\ ecall' = [ecall EXCEPT ![c].id = GenerateId(document, ecall[c].word)]
    /\ epc' = [epc EXCEPT ![c] = "correct"]
    /\ UNCHANGED <<lock, document, eexc>>

\* Lines 444-454:  word.correct(suggestions=suggestion, ...,
\* datetime=datetime.datetime.now(), ...); lock.release().  The arguments are
\* evaluated before correct is called; the parameter is named suggestions, and
\* gecco.py does not import datetime.
AddWordSuggestionsCorrect(c) ==
    /\ epc[c] = "correct"
    /\ IF "suggestion" \notin ModuleGlobals
       THEN EditRaise(c, "NameError", 445)
       ELSE IF "datetime" \notin ModuleGlobals
       THEN EditRaise(c, "NameError", 451)
       ELSE EditDone(c, [document EXCEPT !.corrections =
                @ \cup {[kind |-> "correction", id |-> ecall[c].id,
                         word |-> ecall[c].word, by |-> c]}])

\* Lines 463-473:  word.append(folia.ErrorDetection(self.doc, ...,
\* datetime=datetime.datetime.now())); lock.release().
AddErrorDetectionAppend(c) ==
    /\ epc[c] = "locked"
    /\ ecall[c].prim = "adderrordetection"
    /\ IF "doc" \notin ModuleAttributes
       THEN EditRaise(c, "AttributeError", 465)
       ELSE IF "datetime" \notin ModuleGlobals
       THEN EditRaise(c, "NameError", 470)
       ELSE EditDone(c, [document EXCEPT !.corrections =
                @ \cup {[kind |-> "errordetection", id |-> 0,
                         word |-> ecall[c].word, by |-> c]}])

\* Line 477:  sentence = word.sentence()
SplitCorrectionSentence(c) ==
    /\ epc[c] = "locked"
    /\ ecall[c].prim = "splitcorrection"
    /\ epc' = [epc EXCEPT ![c] = "newwords"]
    /\ UNCHANGED <<lock, document, ecall, eexc>>

\* Line 478:  newwords = [folia.Word(self.doc, ...) for w in newwords]
\* self.doc is evaluated once per new word, so not at all for an empty list.
SplitCorrectionNewWords(c) ==
    /\ epc[c] = "newwords"
    /\ IF ecall[c].newwords > 0 /\ "doc" \notin ModuleAttributes
       THEN EditRaise(c, "AttributeError", 478)
       ELSE /\ epc' = [epc EXCEPT ![c] = "kwargs"]
            /\ UNCHANGED <<lock, document, ecall, eexc>>

\* Lines 479-485:  kwargs['datetime'] = datetime.datetime.now();
\* word.split(*newwords, **kwargs); lock.release()
SplitCorrectionSplit(c) ==
    /\ epc[c] = "kwargs"
    /\ IF "datetime" \notin ModuleGlobals
       THEN EditRaise(c, "NameError", 480)
       ELSE EditDone(c, [document EXCEPT !.corrections =
                @ \cup {[kind |-> "split", id |-> 0,
                         word |-> ecall[c].word, by |-> c]}])

\* Line 489:  sentence = originalwords[0].sentence()
\* The document decides whether the word has a sentence.
MergeCorrectionSentence(c) ==
    /\ epc[c] = "locked"
    /\ ecall[c].prim = "mergecorrection"
    /\ \E s \in BOOLEAN : ecall' = [ecall EXCEPT ![c].sentence = s]
    /\ epc' = [epc EXCEPT ![c] = "sentence"]
    /\ UNCHANGED <<lock, document, eexc>>

\* Lines 490-491:  if not sentence: raise Exception(...)
MergeCorrectionCheck(c) ==
    /\ epc[c] = "sentence"
    /\ IF ~ecall[c].sentence
       THEN EditRaise(c, "Exception", 491)
       ELSE /\ epc' = [epc EXCEPT ![c] = "newword"]
            /\ UNCHANGED <<lock, document, ecall, eexc>>

\* Lines 492-500:  newword = folia.Word(self.doc, ...); ...;
\* sentence.mergewords(...); lock.release()
MergeCorrectionMerge(c) ==
    /\ epc[c] = "newword"
    /\ IF "doc" \notin ModuleAttributes
       THEN EditRaise(c, "AttributeError", 492)
       ELSE IF "datetime" \notin ModuleGlobals
       THEN EditRaise(c, "NameError", 494)
       ELSE EditDone(c, [document EXCEPT !.corrections =
                @ \cup {[kind |-> "merge", id |-> 0,
                         word |-> ecall[c].word, by |-> c]}])

\* A caller is inside the body of a primitive: past lock.acquire() and not yet
\* out of the primitive.
InEdit(c) ==
    epc[c] \in {"locked", "correct", "newwords", "kwargs", "sentence", "newword"}

\* ------------------------------------------------------------ ProcessorThread
MaxItems == 2        \* work items the producer puts on the queue

Workers == 1..MaxThreads

\* The instance attributes ProcessorThread.__init__ sets, lines 31-37.  `stop`
\* is one of them (line 33, self.stop = False), so on an instance the name stop
\* is that boolean and not the method of line 52.
ProcessorThreadAttributes ==
    {"q", "lock", "stop", "loadbalancemaster", "parameters", "clients"}

NoStop == [exc |-> NoExc, outcome |-> "none"]

\* Lines 191 and 199:  queue.put( (module, data) )  with data a unit of the
\* kind the module handles.
QueuePut ==
    /\ queue.bound
    /\ Len(queue.items) < MaxItems
    /\ \E m \in 1..Len(modules) :
          \E u \in Select(document, modules[m].unit) :
              queue' = [queue EXCEPT !.items = Append(@, <<m, u>>),
                                     !.unfinished = @ + 1]
    /\ UNCHANGED <<settings, modules, pc, document, inited, lock, threads, exc,
                   ran, found, editvars, balancevars, workervars, linevars, cachevars>>

\* Line 39: the thread enters ProcessorThread.run.
WorkerRun(w) ==
    /\ wpc[w] = "start"
    /\ wpc' = [wpc EXCEPT ![w] = "while"]
    /\ UNCHANGED <<settings, modules, runvars, found, editvars, balancevars,
                   wexc, stopcall, linevars, cachevars>>

\* Line 40:  while not self.stop
WorkerTestStop(w) ==
    /\ wpc[w] = "while"
    /\ wpc' = [wpc EXCEPT ![w] = IF threads.list[w].stop THEN "ended" ELSE "empty"]
    /\ UNCHANGED <<settings, modules, runvars, found, editvars, balancevars,
                   wexc, stopcall, linevars, cachevars>>

\* Line 41:  if not q.empty()
\* run has no local q (the queue is stored as self.q) and the module has no
\* global q: evaluating the name raises NameError, which nothing in run
\* catches, so the thread ends here.
WorkerQueueEmpty(w) ==
    /\ wpc[w] = "empty"
    /\ IF "q" \notin ModuleGlobals
       THEN /\ wpc' = [wpc EXCEPT ![w] = "raised"]
            /\ wexc' = [wexc EXCEPT ![w] = Raised("NameError", 41)]
       ELSE /\ wpc' = [wpc EXCEPT ![w] = IF queue.items = <<>> THEN "while" ELSE "get"]
            /\ UNCHANGED wexc
    /\ UNCHANGED <<settings, modules, runvars, found, editvars, balancevars,
                   stopcall, linevars, cachevars>>

\* Line 206:  thread.stop()
\* thread.stop is the instance attribute of line 33, the boolean False;
\* calling it raises TypeError in the caller and sets no flag.
ThreadStop(w) ==
    /\ stopcall[w].outcome = "none"
    /\ IF "stop" \in ProcessorThreadAttributes
       THEN /\ stopcall' = [stopcall EXCEPT ![w] =
                               [exc |-> Raised("TypeError", 206), outcome |-> "raised"]]
            /\ UNCHANGED threads
       ELSE /\ stopcall' = [stopcall EXCEPT ![w] =
                               [exc |-> NoExc, outcome |-> "returned"]]
            /\ threads' = [threads EXCEPT !.list[w].stop = TRUE]
    /\ UNCHANGED <<settings, modules, pc, document, inited, lock, queue, exc, ran,
                   found, editvars, balancevars, wpc, wexc, linevars, cachevars>>

\* ----------------------------------------------------------- LineByLineClient
MaxLen      == 2     \* characters in a message
MaxRequests == 2     \* requests a peer sends on one connection
MaxCalls    == 2     \* communicate calls made on one client

\* The characters of a message; a message is one line and has no newline.
Chars == {"a", "b"}

RECURSIVE SeqsUpTo(_, _)
SeqsUpTo(S, n) ==
    IF n = 0 THEN {<<>>}
    ELSE LET shorter == SeqsUpTo(S, n - 1)
         IN  shorter \cup {Append(q, x) : q \in shorter, x \in S}

Messages == SeqsUpTo(Chars, MaxLen)

\* str.encode('utf-8') on these characters: one byte each.
Ord(ch) == IF ch = "a" THEN 97 ELSE IF ch = "b" THEN 98 ELSE 10
Encode(msg) == [i \in 1..Len(msg) |-> Ord(msg[i])]

\* The bytes a peer puts on the wire for a list of requests: each message
\* encoded and ended by a newline.
RECURSIVE Wire(_)
Wire(requests) ==
    IF requests = <<>> THEN <<>>
    ELSE Encode(Head(requests)) \o <<10>> \o Wire(Tail(requests))

\* The instance attributes LineByLineClient.__init__ sets, lines 272-273.  The
\* constructor's host and port are not stored.
ClientAttributes == {"socket", "connected"}

\* Besides the object's own state (connected) and the call in progress (pc,
\* msg, ret, exc) the record notes what happened to the client: the endpoint
\* its constructor was given, the address its socket is connected to, the
\* communicate calls made on it, the connections its socket has made, and
\* whether the call in progress follows a call that failed.
NoClient == [pc |-> "idle", exc |-> NoExc, bound |-> FALSE, endpoint |-> <<>>,
             msg |-> <<>>, connected |-> FALSE, ret |-> None, peer |-> <<>>,
             calls |-> 0, connects |-> 0, retry |-> FALSE]

\* LineByLineClient.__init__, lines 271-273: creates the socket and sets
\* connected = False.  It opens no connection and stores neither host nor
\* port.
LineByLineClientNew(host, port) ==
    [pc |-> "idle", exc |-> NoExc, bound |-> TRUE, endpoint |-> <<host, port>>,
     msg |-> <<>>, connected |-> FALSE, ret |-> None, peer |-> <<>>,
     calls |-> 0, connects |-> 0, retry |-> FALSE]

ClientRaise(type, line) ==
    client' = [client EXCEPT !.exc = Raised(type, line), !.pc = "raised"]

LineFrame ==
    UNCHANGED <<settings, modules, runvars, found, editvars, balancevars,
                workervars, cachevars>>

\* module.CLIENT(host, port), as line 48 constructs a client.
ClientConstruct ==
    /\ \E k \in 1..MaxServers :
          client' = LineByLineClientNew(Endpoint(k)[1], Endpoint(k)[2])
    /\ UNCHANGED conn
    /\ LineFrame

\* Line 279: client.communicate(msg) is called; line 280 calls self.send(msg).
ClientCommunicate ==
    /\ client.bound
    /\ client.pc \in {"idle", "returned", "raised"}
    /\ client.calls < MaxCalls
    /\ \E msg \in Messages :
          client' = [client EXCEPT !.exc = NoExc, !.pc = "send", !.msg = msg,
                                   !.ret = None, !.calls = @ + 1,
                                   !.retry = (client.pc = "raised")]
    /\ UNCHANGED conn
    /\ LineFrame

\* Lines 284-287, send:  if not self.connected: self.connect(); then encode,
\* end with a newline, self.sock.sendall(msg).  On a connected client:
\* msg[-1] of an empty bytes object raises IndexError; msg[-1] is an int and
\* never equal to b"\n", so the newline is always added; the socket is stored
\* as self.socket, so self.sock raises AttributeError.
ClientSend ==
    /\ client.pc = "send"
    /\ IF ~client.connected
       THEN client' = [client EXCEPT !.pc = "connect"]
       ELSE IF Encode(client.msg) = <<>>
       THEN ClientRaise("IndexError", 286)
       ELSE IF "sock" \notin ClientAttributes
       THEN ClientRaise("AttributeError", 287)
       ELSE client' = [client EXCEPT !.pc = "receive"]
    /\ UNCHANGED conn
    /\ LineFrame

\* Lines 275-277, connect:  self.socket.connect( (host,port) )
\* host and port are parameters of __init__ only: in connect they are global
\* names, and the module has neither.  Had it both, the socket would connect
\* to that global address, whatever endpoint the client was constructed for.
ClientConnect ==
    /\ client.pc = "connect"
    /\ IF "host" \notin ModuleGlobals
       THEN ClientRaise("NameError", 276)
       ELSE client' = [client EXCEPT !.pc = "send", !.connected = TRUE,
                                     !.peer = <<"host", 0>>,
                                     !.connects = @ + 1]
    /\ UNCHANGED conn
    /\ LineFrame

\* ---------------------------------------------------- LineByLineServerHandler
\* The locals handle has assigned when it first reaches line 307.
HandleLocalsAt307 == {"cont_recv"}

NoConn == [pc |-> "idle", exc |-> NoExc, bound |-> FALSE, requests |-> <<>>,
           pending |-> <<>>, buffer |-> <<>>, handled |-> <<>>,
           responses |-> <<>>]

\* A peer connects, sends its requests and closes; socketserver creates a
\* handler for the connection and calls handle, whose line 305 sets cont_recv.
ConnectionOpen ==
    /\ conn.pc \in {"idle", "raised"}
    /\ \E requests \in SeqsUpTo(Messages, MaxRequests) :
          conn' = [pc |-> "recv", exc |-> NoExc, bound |-> TRUE,
                   requests |-> requests, pending |-> Wire(requests),
                   buffer |-> <<>>, handled |-> <<>>, responses |-> <<>>]
    /\ UNCHANGED client
    /\ LineFrame

\* Lines 306-309:  buffer += self.request.recv(1024)
\* buffer is a local of handle (it is assigned in it) and nothing assigns it
\* before the loop: reading it for += raises UnboundLocalError before recv is
\* called.  socketserver closes the connection of a handler that raised.
\* With a bound buffer the loop would not end either: buffer[-1] is an int and
\* never equal to b"\n" (and raises IndexError on an empty buffer).
HandleRecv ==
    /\ conn.pc = "recv"
    /\ IF "buffer" \notin HandleLocalsAt307
       THEN conn' = [conn EXCEPT !.exc = Raised("UnboundLocalError", 307),
                                 !.pc = "raised"]
       ELSE IF conn.buffer \o conn.pending = <<>>
       THEN conn' = [conn EXCEPT !.exc = Raised("IndexError", 308),
                                 !.pc = "raised"]
       ELSE conn' = [conn EXCEPT !.pending = <<>>,
                                 !.buffer = @ \o conn.pending]
    /\ UNCHANGED client
    /\ LineFrame

\* -------------------------------------------------------------- LexiconModule
MaxCache    == 2     \* settings['cachesize'] ranges over 1..MaxCache
MaxKeys     == 3     \* distinct words handed to cache
MaxInserts  == 4     \* entries inserted into the cache in one behaviour
MaxHandlers == 2     \* server threads running server_handler at once

Handlers   == 1..MaxHandlers
CacheWords == 1..MaxKeys
\* Two result lists, to tell a value from the one it replaced.
ResultSet  == {"r1", "r2"}

NoCacheCall == [word |-> 0, results |-> "none"]

\* An OrderedDict is the sequence of its entries in dict order.
Keys(od) == {od[i].word : i \in 1..Len(od)}

\* Line 123:  len(self._cache) == self.settings['cachesize'], with the length
\* the thread read.
CacheFull(n, size) == n = size

\* popitem with its default last = True, whatever it is asked for.
PopItemLast(od, last) == SubSeq(od, 1, Len(od) - 1)

\* Line 124:  OrderedDict.popitem(last): removes the last entry, or with
\* last = False the first one.
PopItem(od, last) ==
    IF last THEN SubSeq(od, 1, Len(od) - 1) ELSE Tail(od)

\* Line 125:  self._cache[word] = results.  A key already present keeps its
\* place in the order and gets the new value; a new key goes to the end.
SetItem(od, word, results, stamp) ==
    IF word \in Keys(od)
    THEN [i \in 1..Len(od) |->
             IF od[i].word = word THEN [od[i] EXCEPT !.results = results]
             ELSE od[i]]
    ELSE Append(od, [word |-> word, results |-> results, stamp |-> stamp])

\* findclosest, lines 87-88:  if self._cache and word in self._cache: return
\* self._cache[word].  None stands for the lookup that falls through.
Lookup(od, word) ==
    IF od # <<>> /\ word \in Keys(od)
    THEN od[CHOOSE i \in 1..Len(od) : od[i].word = word].results
    ELSE None

CacheFrame ==
    UNCHANGED <<settings, modules, runvars, found, editvars, balancevars,
                workervars, linevars, cachesize>>

\* Line 122: a thread calls self.cache(word, results).
CacheCall(t) ==
    /\ kpc[t] \in {"idle", "raised"}
    /\ inserts < MaxInserts
    /\ \E word \in CacheWords, results \in ResultSet :
          kcall' = [kcall EXCEPT ![t] = [word |-> word, results |-> results]]
    /\ kpc' = [kpc EXCEPT ![t] = "test"]
    /\ kexc' = [kexc EXCEPT ![t] = NoExc]
    /\ UNCHANGED <<cached, stored, inserts, evicted>>
    /\ CacheFrame

\* A thread calls self.cache(word, results) while no other call is in progress.
CacheCallSequential(t) ==
    /\ \A u \in Handlers : kpc[u] \in {"idle", "raised"}
    /\ CacheCall(t)

\* Line 123:  if len(self._cache) == self.settings['cachesize']
CacheTest(t) ==
    /\ kpc[t] = "test"
    /\ kpc' = [kpc EXCEPT ![t] =
                  IF CacheFull(Len(cached), cachesize) THEN "popitem" ELSE "setitem"]
    /\ UNCHANGED <<cached, kcall, kexc, stored, inserts, evicted>>
    /\ CacheFrame

\* Line 124:  self._cache.popitem(False)
\* popitem on an empty OrderedDict raises KeyError.
CachePopItem(t) ==
    /\ kpc[t] = "popitem"
    /\ IF cached = <<>>
       THEN /\ kpc' = [kpc EXCEPT ![t] = "raised"]
            /\ kexc' = [kexc EXCEPT ![t] = Raised("KeyError", 124)]
            /\ UNCHANGED <<cached, evicted>>
       ELSE /\ cached' = PopItem(cached, FALSE)
            /\ evicted' = (CHOOSE e \in {cached[i] : i \in 1..Len(cached)} :
                               e \notin {cached'[i] : i \in 1..Len(cached')}).stamp
            /\ kpc' = [kpc EXCEPT ![t] = "setitem"]
            /\ UNCHANGED kexc
    /\ UNCHANGED <<kcall, stored, inserts>>
    /\ CacheFrame

\* Line 125:  self._cache[word] = results, and the call returns: the thread
\* is free for its next request.
CacheSetItem(t) ==
    /\ kpc[t] = "setitem"
    /\ cached' = SetItem(cached, kcall[t].word, kcall[t].results, inserts + 1)
    /\ inserts' = IF kcall[t].word \in Keys(cached) THEN inserts ELSE inserts + 1
    /\ stored' = [stored EXCEPT ![kcall[t].word] = kcall[t].results]
    /\ kpc' = [kpc EXCEPT ![t] = "idle"]
    /\ kcall' = [kcall EXCEPT ![t] = NoCacheCall]
    /\ UNCHANGED <<kexc, evicted>>
    /\ CacheFrame

\* ------------------------------------------------------------- specification
Init ==
    /\ settings \in [threads : 0..MaxThreads]
    /\ modules = <<>>
    /\ pc = "idle"
    /\ document = DocumentNew(0, FALSE)
    /\ inited = <<>>
    /\ lock = UnboundLock
    /\ threads = UnboundThreads
    /\ queue = UnboundQueue
    /\ exc = NoExc
    /\ ran = <<>>
    /\ found = NoFind
    /\ epc = [c \in Callers |-> "idle"]
    /\ ecall = [c \in Callers |-> NoCall]
    /\ eexc = [c \in Callers |-> NoExc]
    /\ master = UnboundMaster
    /\ clock = 0
    /\ loads = [k \in 1..MaxServers |-> 0]
    /\ polls = {}
    /\ got = NoGet
    /\ wpc = <<>>
    /\ wexc = <<>>
    /\ stopcall = <<>>
    /\ client = NoClient
    /\ conn = NoConn
    /\ cachesize = 1
    /\ cached = <<>>
    /\ kpc = <<>>
    /\ kcall = <<>>
    /\ kexc = <<>>
    /\ stored = <<>>
    /\ inserts = 0
    /\ evicted = 0

Next ==
    \/ CorrectorAppend
    \/ RunStart
    \/ RunInitModule
    \/ RunCreateLock
    \/ RunConstructThread
    \/ RunCreateQueue
    \/ RunQueueDocument

Spec == Init /\ [][Next]_vars


NextFind ==
    \/ CorrectorAppend
    \/ ModuleFindserver

SpecFind == Init /\ [][NextFind]_vars

\* The balancer is exercised on its own, with the servers reporting any loads.
InitBalance ==
    /\ settings \in [threads : {MaxThreads}]
    /\ modules = <<>>
    /\ pc = "idle"
    /\ document = DocumentNew(0, FALSE)
    /\ inited = <<>>
    /\ lock = UnboundLock
    /\ threads = UnboundThreads
    /\ queue = UnboundQueue
    /\ exc = NoExc
    /\ ran = <<>>
    /\ found = NoFind
    /\ epc = [c \in Callers |-> "idle"]
    /\ ecall = [c \in Callers |-> NoCall]
    /\ eexc = [c \in Callers |-> NoExc]
    /\ master = UnboundMaster
    /\ clock = 0
    /\ loads \in [1..MaxServers -> 0..MaxLoad]
    /\ polls = {}
    /\ got = NoGet
    /\ wpc = <<>>
    /\ wexc = <<>>
    /\ stopcall = <<>>
    /\ client = NoClient
    /\ conn = NoConn
    /\ cachesize = 1
    /\ cached = <<>>
    /\ kpc = <<>>
    /\ kcall = <<>>
    /\ kexc = <<>>
    /\ stored = <<>>
    /\ inserts = 0
    /\ evicted = 0

NextBalance ==
    \/ MasterConstruct
    \/ MasterGet
    \/ Tick

SpecBalance == InitBalance /\ [][NextBalance]_vars

\* Each ProcessorThread's run is executed by a thread of its own, on a queue
\* that a producer fills; the caller may call stop on each thread.
InitWorker ==
    /\ settings \in [threads : {MaxThreads}]
    /\ modules = <<ModuleNew("LexiconModule", [hasServers |-> FALSE, servers |-> <<>>]),
                   ModuleNew("Module", [hasServers |-> FALSE, servers |-> <<>>])>>
    /\ pc = "idle"
    /\ document = DocumentNew(MaxWords, TRUE)
    /\ inited = <<>>
    /\ lock = [bound |-> TRUE, holder |-> 0]
    /\ queue = [bound |-> TRUE, items |-> <<>>, unfinished |-> 0]
    /\ threads = [bound |-> TRUE,
                  list |-> [w \in Workers |-> ProcessorThreadNew(queue, lock)]]
    /\ exc = NoExc
    /\ ran = <<>>
    /\ found = NoFind
    /\ epc = [c \in Callers |-> "idle"]
    /\ ecall = [c \in Callers |-> NoCall]
    /\ eexc = [c \in Callers |-> NoExc]
    /\ master = UnboundMaster
    /\ clock = 0
    /\ loads = [k \in 1..MaxServers |-> 0]
    /\ polls = {}
    /\ got = NoGet
    /\ wpc = [w \in Workers |-> "start"]
    /\ wexc = [w \in Workers |-> NoExc]
    /\ stopcall = [w \in Workers |-> NoStop]
    /\ client = NoClient
    /\ conn = NoConn
    /\ cachesize = 1
    /\ cached = <<>>
    /\ kpc = <<>>
    /\ kcall = <<>>
    /\ kexc = <<>>
    /\ stored = <<>>
    /\ inserts = 0
    /\ evicted = 0

NextWorker ==
    \/ QueuePut
    \/ \E w \in Workers : WorkerRun(w)
    \/ \E w \in Workers : WorkerTestStop(w)
    \/ \E w \in Workers : WorkerQueueEmpty(w)
    \/ \E w \in Workers : ThreadStop(w)

SpecWorker == InitWorker /\ [][NextWorker]_vars

NextLine ==
    \/ ClientConstruct
    \/ ClientCommunicate
    \/ ClientSend
    \/ ClientConnect
    \/ ConnectionOpen
    \/ HandleRecv

SpecLine == Init /\ [][NextLine]_vars

\* A LexiconModule as load leaves it: an empty OrderedDict as _cache (line
\* 59) and a cachesize of at least 1 (lines 48-49 replace 0 by 1000).
InitCache ==
    /\ settings \in [threads : {MaxThreads}]
    /\ modules = <<>>
    /\ pc = "idle"
    /\ document = DocumentNew(0, FALSE)
    /\ inited = <<>>
    /\ lock = UnboundLock
    /\ threads = UnboundThreads
    /\ queue = UnboundQueue
    /\ exc = NoExc
    /\ ran = <<>>
    /\ found = NoFind
    /\ epc = [c \in Callers |-> "idle"]
    /\ ecall = [c \in Callers |-> NoCall]
    /\ eexc = [c \in Callers |-> NoExc]
    /\ master = UnboundMaster
    /\ clock = 0
    /\ loads = [k \in 1..MaxServers |-> 0]
    /\ polls = {}
    /\ got = NoGet
    /\ wpc = <<>>
    /\ wexc = <<>>
    /\ stopcall = <<>>
    /\ client = NoClient
    /\ conn = NoConn
    /\ cachesize \in 1..MaxCache
    /\ cached = <<>>
    /\ kpc = [t \in Handlers |-> "idle"]
    /\ kcall = [t \in Handlers |-> NoCacheCall]
    /\ kexc = [t \in Handlers |-> NoExc]
    /\ stored = [w \in CacheWords |-> "none"]
    /\ inserts = 0
    /\ evicted = 0

NextCacheSeq ==
    \/ \E t \in Handlers : CacheCallSequential(t)
    \/ \E t \in Handlers : CacheTest(t)
    \/ \E t \in Handlers : CachePopItem(t)
    \/ \E t \in Handlers : CacheSetItem(t)

SpecCacheSeq == InitCache /\ [][NextCacheSeq]_vars

NextCache ==
    \/ \E t \in Handlers : CacheCall(t)
    \/ \E t \in Handlers : CacheTest(t)
    \/ \E t \in Handlers : CachePopItem(t)
    \/ \E t \in Handlers : CacheSetItem(t)

SpecCache == InitCache /\ [][NextCache]_vars

\* The primitives are called on a document that has words and has been
\* initialised, with the lock of the run.
InitEdit ==
    /\ settings \in [threads : {MaxThreads}]
    /\ modules = <<>>
    /\ pc = "idle"
    /\ document = DocumentNew(MaxWords, TRUE)
    /\ inited = <<>>
    /\ lock = [bound |-> TRUE, holder |-> 0]
    /\ threads = UnboundThreads
    /\ queue = UnboundQueue
    /\ exc = NoExc
    /\ ran = <<>>
    /\ found = NoFind
    /\ epc = [c \in Callers |-> "idle"]
    /\ ecall = [c \in Callers |-> NoCall]
    /\ eexc = [c \in Callers |-> NoExc]
    /\ master = UnboundMaster
    /\ clock = 0
    /\ loads = [k \in 1..MaxServers |-> 0]
    /\ polls = {}
    /\ got = NoGet
    /\ wpc = <<>>
    /\ wexc = <<>>
    /\ stopcall = <<>>
    /\ client = NoClient
    /\ conn = NoConn
    /\ cachesize = 1
    /\ cached = <<>>
    /\ kpc = <<>>
    /\ kcall = <<>>
    /\ kexc = <<>>
    /\ stored = <<>>
    /\ inserts = 0
    /\ evicted = 0

\* The edit primitives touch none of the locals of Corrector.run.
EditFrame ==
    UNCHANGED <<settings, modules, pc, inited, threads, queue, exc, ran, found,
                othervars>>

NextEdit ==
    \/ \E c \in Callers : EditCall(c) /\ EditFrame
    \/ \E c \in Callers : LockAcquire(c) /\ EditFrame
    \/ \E c \in Callers : AddWordSuggestionsGenerateId(c) /\ EditFrame
    \/ \E c \in Callers : AddWordSuggestionsCorrect(c) /\ EditFrame
    \/ \E c \in Callers : AddErrorDetectionAppend(c) /\ EditFrame
    \/ \E c \in Callers : SplitCorrectionSentence(c) /\ EditFrame
    \/ \E c \in Callers : SplitCorrectionNewWords(c) /\ EditFrame
    \/ \E c \in Callers : SplitCorrectionSplit(c) /\ EditFrame
    \/ \E c \in Callers : MergeCorrectionSentence(c) /\ EditFrame
    \/ \E c \in Callers : MergeCorrectionCheck(c) /\ EditFrame
    \/ \E c \in Callers : MergeCorrectionMerge(c) /\ EditFrame

SpecEdit == InitEdit /\ [][NextEdit]_vars


\* ================================================================= properties
RunEnded   == pc \in {"raised", "returned"}
InitFailed == exc.type = "InitError"
Persisted  == pc = "returned"

AllUnits == Select(document, "Document") \cup Select(document, "Word")

\* The (module, unit) pairs whose module's UNIT is the kind of the unit.
MatchingPairs ==
    {p \in (1..Len(modules)) \X AllUnits : p[2] \in Select(document, modules[p[1]].unit)}

TimesRan(p) == Cardinality({i \in 1..Len(ran) : ran[i] = p})

\* Work items of module m: those waiting in the queue and those a worker ran.
ItemsOf(m) ==
    Cardinality({i \in 1..Len(queue.items) : queue.items[i][1] = m})
  + Cardinality({i \in 1..Len(ran) : ran[i][1] = m})

\* C1: when a run whose modules all initialised has ended, every (module, unit)
\* pair with matching kinds has been run by a worker exactly once, and no other
\* pair has been run.
C1_DispatchedExactlyOnce ==
    (RunEnded /\ ~InitFailed) =>
        \A p \in (1..Len(modules)) \X AllUnits :
            TimesRan(p) = IF p \in MatchingPairs THEN 1 ELSE 0

\* C2: when a run with at least one worker thread has ended (its modules all
\* initialised), every module whose UNIT is the whole document has received
\* exactly one work item.
C2_DocumentModuleOneItem ==
    (RunEnded /\ ~InitFailed /\ settings.threads >= 1) =>
        \A m \in 1..Len(modules) :
            modules[m].unit = "Document" => ItemsOf(m) = 1

\* C3: a run that holds a work item whose module's run raises (the base class
\* Module, on the document) still ends Persisted, with every other work item
\* run.
C3_RaisingItemDoesNotStopRun ==
    (RunEnded /\ ~InitFailed
        /\ \E p \in MatchingPairs : RunNotImplemented(modules[p[1]])) =>
        /\ Persisted
        /\ \A p \in MatchingPairs :
              ~RunNotImplemented(modules[p[1]]) => TimesRan(p) = 1

\* C4: at most one caller is inside the body of an edit primitive, and it is
\* the holder of the lock.
C4_OneEditAtATime ==
    \A c1, c2 \in Callers :
        (InEdit(c1) /\ InEdit(c2)) => (c1 = c2 /\ lock.holder = c1)

\* C4 witness: one caller has generated its correction id inside
\* addwordsuggestions while another waits at lock.acquire().
C4_Witness ==
    \E c1, c2 \in Callers :
        /\ c1 # c2
        /\ epc[c1] = "correct"
        /\ epc[c2] = "acquire"

\* No caller can take another step: each has left its primitive, or waits for
\* a lock whose holder has left its primitive without releasing it.
EditsQuiescent ==
    \A c \in Callers :
        \/ epc[c] \in {"raised", "returned"}
        \/ /\ epc[c] = "acquire"
           /\ lock.holder # 0
           /\ epc[lock.holder] \in {"raised", "returned"}

\* C5: when every caller has called addwordsuggestions and none can step any
\* more, the document holds one added correction per call, with distinct ids
\* per word.
C5_AllSuggestionsAdded ==
    (EditsQuiescent /\ \A c \in Callers : ecall[c].prim = "addwordsuggestions") =>
        /\ Cardinality(document.corrections) = MaxCallers
        /\ \A a, b \in document.corrections :
              (a.word = b.word /\ a.id = b.id) => a = b

\* C7: the run enters the phase after Initializing only with every module
\* initialised, and a run whose modules all initialised ends Persisted, having
\* had its own lock, its own queue and its settings['threads'] workers.
C7_LifecycleOrder ==
    /\ (pc \in {"threads", "dispatch", "returned"} => Len(inited) = Len(modules))
    /\ (RunEnded /\ ~InitFailed) =>
          /\ Persisted
          /\ lock.bound
          /\ queue.bound
          /\ threads.bound /\ Len(threads.list) = settings.threads

\* C8: once a module's init has failed the run is over at that call: the
\* modules after it are not initialised, no lock, worker or queue is created,
\* no work item is enqueued or run, no edit is applied and the run does not
\* reach the save.
C8_InitFailureAborts ==
    InitFailed =>
        /\ pc = "raised"
        /\ exc.line = 170
        /\ Len(inited) < Len(modules)
        /\ ~lock.bound /\ ~threads.bound /\ ~queue.bound
        /\ queue.items = <<>> /\ ran = <<>>
        /\ document.corrections = {}
        /\ ~Persisted

\* C8 witness: the second module's init fails in a run with a worker thread
\* configured and matching work in the document.
C8_Witness ==
    /\ InitFailed
    /\ Len(inited) = 1
    /\ Len(modules) = 2
    /\ settings.threads >= 1
    /\ MatchingPairs # {}

\* C9: a registered module is local exactly if it has no 'servers' setting.
C9_LocalIffNoServers ==
    \A i \in 1..Len(modules) : modules[i].local <=> ~modules[i].settings.hasServers

\* C10: findserver on a module with exactly one candidate endpoint returns that
\* endpoint without consulting the load balancer.
C10_SingleEndpointNoPoll ==
    (found.outcome # "none"
        /\ found.module.settings.hasServers
        /\ Len(found.module.settings.servers) = 1) =>
        /\ found.outcome = "returned"
        /\ found.endpoint = found.module.settings.servers[1]
        /\ ~found.polled

\* The load endpoint e reported when the last get was called.
LoadThen(e) == got.loadsthen[e[2]]

\* The first candidate of the last get, in list order, whose load is the least.
FirstLeastLoaded ==
    got.servers[CHOOSE i \in 1..Len(got.servers) :
        /\ \A j \in 1..Len(got.servers) :
              LoadThen(got.servers[i]) <= LoadThen(got.servers[j])
        /\ \A j \in 1..(i - 1) :
              LoadThen(got.servers[j]) > LoadThen(got.servers[i])]

\* C11: a get with more than one candidate returns the candidate with the
\* least load, the first of them in registration order when several share it.
C11_LeastLoadedFirstRegistered ==
    (got.called /\ Len(got.servers) > 1) => got.result = FirstLeastLoaded

\* A poll whose reading is still fresh at the time of the last get.
Fresh(p) ==
    /\ p.time <= got.time
    /\ got.time - p.time < master.minpollinterval

\* C12: two polls of one endpoint are at least minpollinterval apart, and a
\* get with more than one candidate rests on a fresh reading of every
\* candidate and returns the candidate whose fresh reading is the least.
C12_PollAtMostOncePerInterval ==
    /\ \A p1, p2 \in polls :
          (p1.endpoint = p2.endpoint /\ p1.time < p2.time) =>
              p2.time - p1.time >= master.minpollinterval
    /\ (got.called /\ Len(got.servers) > 1) =>
          /\ \A i \in 1..Len(got.servers) :
                \E p \in polls : p.endpoint = got.servers[i] /\ Fresh(p)
          /\ \E p \in polls :
                /\ p.endpoint = got.result
                /\ Fresh(p)
                /\ \A r \in polls : Fresh(r) => p.load <= r.load

\* C13: a communicate call that has ended has returned the message it was
\* given, unchanged.
C13_RoundTrip ==
    client.pc \in {"returned", "raised"} =>
        /\ client.pc = "returned"
        /\ client.ret = client.msg

\* C14: when handle is over for a connection, server_handler has been invoked
\* once per request of the connection, in request order, and one response per
\* request has been written.
C14_EveryRequestAnswered ==
    conn.pc \in {"returned", "raised"} =>
        /\ conn.handled = conn.requests
        /\ Len(conn.responses) = Len(conn.requests)

\* C15: the lock is held only by a caller that is inside an edit primitive; a
\* caller that has not entered one, waits for the lock or has left its
\* primitive does not hold it.
C15_LockOnlyInsideEdit ==
    /\ lock.holder # 0 => InEdit(lock.holder)
    /\ \A c \in Callers : epc[c] \in {"idle", "acquire"} => lock.holder # c

\* C16: a caller whose edit call has returned or raised no longer holds the
\* lock.
C16_LockReleasedOnEveryExit ==
    \A c \in Callers : epc[c] \in {"returned", "raised"} => lock.holder # c

\* C17: a worker's loop ends only after the stop signal has been given to it.
C17_WorkerRunsUntilStopped ==
    \A w \in Workers : wpc[w] \in {"ended", "raised"} => threads.list[w].stop

\* C18: a stop call on a worker returns with the worker's stop signal set.
C18_StopSignalsWorker ==
    \A w \in Workers :
        stopcall[w].outcome # "none" =>
            /\ stopcall[w].outcome = "returned"
            /\ threads.list[w].stop

\* The communicate call in progress has got past send's connect-if-needed
\* (line 284), or has ended.
PastConnect == client.pc \in {"receive", "returned", "raised"}

\* C21: a client on which communicate has got past the lazy connect is
\* connected to the endpoint it was constructed for.
C21_ConnectsToResolvedEndpoint ==
    (client.calls >= 1 /\ PastConnect) =>
        /\ client.peer = client.endpoint
        /\ client.connects >= 1

\* C22: constructing a client opens no connection, and once a communicate has
\* got past the lazy connect the client's socket has connected exactly once,
\* however many calls were made on it.
C22_LazyConnectOnce ==
    /\ (client.bound /\ client.calls = 0) =>
          (~client.connected /\ client.connects = 0)
    /\ (client.calls >= 1 /\ PastConnect) => client.connects = 1

\* C23: a client whose communicate failed is marked disconnected, and a
\* communicate that follows a failed one connects again before it sends.
C23_ReconnectsAfterFailure ==
    /\ client.pc = "raised" => ~client.connected
    /\ (client.retry /\ PastConnect) =>
          client.connects >= 1

\* No cache call is in progress.
CacheQuiet == \A t \in Handlers : kpc[t] \in {"idle", "raised"}

\* C24: with the calls made one after the other the cache never holds more
\* than cachesize entries, every entry still cached was inserted after the
\* entry evicted last (evictions go oldest first), and looking up a cached
\* word gives the results written for it last.
C24_BoundedInsertionOrdered ==
    /\ Len(cached) <= cachesize
    /\ \A i \in 1..Len(cached) : cached[i].stamp > evicted
    /\ \A i \in 1..Len(cached) :
          Lookup(cached, cached[i].word) = stored[cached[i].word]

\* C24 witness: a full cache has had an entry evicted for a new word and is
\* full again.
C24_Witness ==
    /\ CacheQuiet
    /\ evicted > 0
    /\ Len(cached) = cachesize
    /\ cachesize > 1

\* C25: under concurrent cache calls the cache never holds more than
\* cachesize entries.
C25_BoundUnderConcurrency == Len(cached) <= cachesize

\* C27: a run with at least one worker thread whose modules all initialised
\* does not end before the save: it ends only Persisted.
C27_RunReachesPersisted ==
    (settings.threads >= 1 /\ RunEnded /\ ~InitFailed) => Persisted

=============================================================================
